---- MODULE Spec2Model ----
(***************************************************************************)
(* Model of student_server.py: the intake endpoint, the admin endpoint and *)
(* the secrets file, the fixed worker pool, the per-task pipeline          *)
(* process_task and its helpers wait_for_pages, notify_with_backoff,       *)
(* github_enable_pages and decode_data_uri_to_file.                        *)
(* Strings are sequences of one-character strings.  Time is the reading of *)
(* time.time() seen by the thread of one task, relative to its entry into  *)
(* wait_for_pages.                                                         *)
(***************************************************************************)
EXTENDS Integers, Sequences, FiniteSets, TLC

\* ------------------------------------------------------------------ bounds
NumTasks == 2
MaxAttachments == 2
MaxTimeout == 4
MaxInterval == 2
MaxProbeDur == 2
MaxOversleep == 1
MaxBudget == 8
SlowProbe == 89
NumAdmins == 2

\* ------------------------------------------------------- program constants
MAX_WORKERS == 1
PAGES_TIMEOUT == 180
POLL_INTERVAL == 2
MAX_ATTEMPTS == 8
MAX_DELAY == 60

Tasks == 1..NumTasks
Admins == 1..NumAdmins
NONE == "none"

\* --------------------------------------------------------------- strings
Min(a, b) == IF a < b THEN a ELSE b

\* s[i..] starts with the string p
StartsAt(p, s, i) ==
    /\ i + Len(p) - 1 <= Len(s)
    /\ \A j \in 1..Len(p) : s[i + j - 1] = p[j]

DATA_PREFIX == <<"d", "a", "t", "a", ":">>
B64_MARK == <<";", "b", "a", "s", "e", "6", "4", ",">>

\* re.match(r"data:(.*?);base64,(.*)", data_uri, re.S): anchored at the start,
\* the lazy group 1 stops at the leftmost ";base64,", group 2 is the rest.
\* The result is <<TRUE, group 2>> or <<FALSE, <<>> >>.
DataUriMatch(s) ==
    IF ~StartsAt(DATA_PREFIX, s, 1)
    THEN <<FALSE, <<>> >>
    ELSE LET from == Len(DATA_PREFIX) + 1
             hits == {i \in from..Len(s) : StartsAt(B64_MARK, s, i)}
         IN  IF hits = {}
             THEN <<FALSE, <<>> >>
             ELSE LET i == CHOOSE h \in hits : \A g \in hits : h <= g
                  IN  <<TRUE, SubSeq(s, i + Len(B64_MARK), Len(s))>>

B64_ALPHABET ==
    <<"A", "B", "C", "D", "E", "F", "G", "H", "I", "J", "K", "L", "M",
      "N", "O", "P", "Q", "R", "S", "T", "U", "V", "W", "X", "Y", "Z",
      "a", "b", "c", "d", "e", "f", "g", "h", "i", "j", "k", "l", "m",
      "n", "o", "p", "q", "r", "s", "t", "u", "v", "w", "x", "y", "z",
      "0", "1", "2", "3", "4", "5", "6", "7", "8", "9", "+", "/">>

IsB64Char(c) == \E i \in 1..64 : B64_ALPHABET[i] = c
B64Value(c) == (CHOOSE i \in 1..64 : B64_ALPHABET[i] = c) - 1

\* base64.b64decode(b64) with validate=False, i.e. binascii.a2b_base64 in
\* its lenient mode: characters outside the alphabet are skipped, a pad that
\* completes a quad ends the decoding, and left-over sextets are an error.
\* State st = [quad |-> position in the quad, left |-> pending bits,
\*             pads |-> consecutive pads, out |-> bytes, stop |-> pad seen].
RECURSIVE B64Scan(_, _, _)
B64Scan(s, i, st) ==
    IF i > Len(s) \/ st.stop
    THEN st
    ELSE LET c == s[i] IN
         IF c = "="
         THEN IF st.quad >= 2 /\ st.quad + st.pads + 1 >= 4
              THEN [st EXCEPT !.stop = TRUE]
              ELSE B64Scan(s, i + 1,
                     [st EXCEPT !.pads = IF st.quad >= 2 THEN @ + 1 ELSE @])
         ELSE IF ~IsB64Char(c)
         THEN B64Scan(s, i + 1, st)
         ELSE LET v == B64Value(c) IN
              B64Scan(s, i + 1,
                CASE st.quad = 0 ->
                       [st EXCEPT !.quad = 1, !.left = v, !.pads = 0]
                  [] st.quad = 1 ->
                       [st EXCEPT !.quad = 2, !.left = v % 16, !.pads = 0,
                                  !.out = Append(@, st.left * 4 + v \div 16)]
                  [] st.quad = 2 ->
                       [st EXCEPT !.quad = 3, !.left = v % 4, !.pads = 0,
                                  !.out = Append(@, st.left * 16 + v \div 4)]
                  [] OTHER ->
                       [st EXCEPT !.quad = 0, !.left = 0, !.pads = 0,
                                  !.out = Append(@, st.left * 64 + v)])

\* <<TRUE, bytes>> or <<FALSE, <<>> >> when binascii.Error is raised
b64decode(s) ==
    LET st == B64Scan(s, 1, [quad |-> 0, left |-> 0, pads |-> 0,
                             out |-> <<>>, stop |-> FALSE])
    IN  IF st.stop \/ st.quad = 0 THEN <<TRUE, st.out>> ELSE <<FALSE, <<>> >>

\* decode_data_uri_to_file: the bytes written to out_path, or an exception
decode_data_uri_to_file(data_uri) ==
    LET m == DataUriMatch(data_uri) IN
    IF ~m[1]
    THEN [ok |-> FALSE, bytes |-> <<>>]
    ELSE LET d == b64decode(m[2]) IN [ok |-> d[1], bytes |-> d[2]]

\* ------------------------------------------------------------ input data
Str_data_a_base64 ==
    <<"d", "a", "t", "a", ":", "a", ";", "b", "a", "s", "e", "6", "4", ",">>

URI_PADDED == Str_data_a_base64 \o <<"Q", "U", "I", "=">>
URI_PLAIN == <<"Q", "U", "J", "D">>
URI_SHORT == Str_data_a_base64 \o <<"Q", "U", "J">>
URI_JUNK == Str_data_a_base64 \o <<"Q", "U", "!", "J", "D">>

DataUris == {URI_PADDED, URI_PLAIN, URI_SHORT, URI_JUNK}
AttNames == {"a.png", "index.html"}
Attachment == [name : AttNames, url : DataUris]

RECURSIVE SeqsUpTo(_, _)
SeqsUpTo(S, n) ==
    IF n = 0
    THEN {<<>>}
    ELSE LET shorter == SeqsUpTo(S, n - 1)
         IN  shorter \cup {Append(q, x) : q \in {r \in shorter : Len(r) = n - 1},
                                          x \in S}

AttachmentLists == SeqsUpTo(Attachment, MaxAttachments)

Emails == {"e1", "e2"}
Secrets == {"s1", "s2"}
CallbackUrls == {"", "cb"}
Rounds == {<<"2", "1">>, <<"x">>}
LeanRounds == {<<"1">>}

REQUIRED ==
    <<"email", "secret", "task", "round", "nonce", "brief", "evaluation_url">>

Payloads(rounds, attLists) ==
    [email : Emails, secret : Secrets, task : {"t1"}, round : rounds,
     nonce : {"n1"}, brief : {"b"}, evaluation_url : CallbackUrls,
     attachments : attLists]

Without(d, k) == [f \in DOMAIN d \ {k} |-> d[f]]

SAMPLE_PAYLOAD ==
    [email |-> "e1", secret |-> "s1", task |-> "t1", round |-> <<"1">>,
     nonce |-> "n1", brief |-> "b", evaluation_url |-> "cb",
     attachments |-> <<>>]
PartialPayloads == {Without(SAMPLE_PAYLOAD, REQUIRED[i]) : i \in 1..Len(REQUIRED)}

\* HTTP outcomes: a status code, or NO_RESPONSE when requests raises
NO_RESPONSE == 0
ProbeStatuses == {200, 204, 404, NO_RESPONSE}
NotifyStatuses == {200, 201, 500, NO_RESPONSE}
LeanNotifyStatuses == {200, 500}
PagesStatuses == {201, 202, 404, NO_RESPONSE}

\* int(x) for a string of decimal digits; <<FALSE, 0>> is ValueError
DIGITS == <<"0", "1", "2", "3", "4", "5", "6", "7", "8", "9">>
IsDigit(c) == \E i \in 1..10 : DIGITS[i] = c
DigitValue(c) == (CHOOSE i \in 1..10 : DIGITS[i] = c) - 1
RECURSIVE DigitsValue(_, _)
DigitsValue(s, n) ==
    IF n = 0 THEN 0 ELSE DigitsValue(s, n - 1) * 10 + DigitValue(s[n])
ParseInt(s) ==
    IF s # <<>> /\ \A i \in 1..Len(s) : IsDigit(s[i])
    THEN <<TRUE, DigitsValue(s, Len(s))>>
    ELSE <<FALSE, 0>>

\* ----------------------------------------------------------------- state
VARIABLES
    secrets_map,    \* email -> secret, NONE when the email has no entry
    gh_token,       \* whether GH_TOKEN is set in the environment
    max_workers,    \* the pool size read from the environment at startup
    queue,          \* the executor's work queue: submitted, not yet started
    response,       \* per submission: the HTTP response of api_task
    task,           \* per submission: task_json handed to process_task
    pc,             \* per submission: position in process_task
    outcome,        \* per task: the terminal log line, "finished" or "error"
    failed,         \* per task: the step whose exception ended the task
    began,          \* per task: pipeline stages begun, in order
    ended,          \* per task: pipeline stages completed, in order
    warned,         \* per task: warnings printed, "poll" (217), "notify" (232)
    dirs,           \* workspace directories that exist on disk
    ws,             \* per task: its workspace path, <<>> before mkdtemp
    files,          \* per task: files in the workspace, name -> content
    commit,         \* per task: the tree of the local commit, if any
    remote,         \* per task: the remote repository, if any
    pub,            \* per task: repo_url, commit_sha, pages_url
    pages,          \* per task: requests sent by github_enable_pages
    wfp,            \* per task: locals and history of wait_for_pages
    nb,             \* per task: locals and history of notify_with_backoff
    payload,        \* per task: the notification payload built at line 219
    secrets_file,   \* the mapping stored in student_secrets.json
    admin,          \* per admin call: position, body, locals, response
    updates,        \* the in-memory writes of admin_add_secret, in order
    asked           \* per submission: the keys, email and secret of its body

adminVars == <<secrets_file, admin, updates>>
intakeVars ==
    <<secrets_map, gh_token, max_workers, queue, response, task, adminVars,
      asked>>
logVars == <<outcome, failed, began, ended, warned>>
diskVars == <<dirs, ws, files, commit>>
hubVars == <<remote, pub, pages>>
callVars == <<wfp, nb, payload>>
vars == <<intakeVars, pc, logVars, diskVars, hubVars, callVars>>

ORDER ==
    <<"workspace", "build", "commit", "repository", "hosting", "poll", "notify">>

NoTask ==
    [email |-> NONE, secret |-> NONE, task |-> NONE, round |-> <<>>,
     nonce |-> NONE, brief |-> NONE, evaluation_url |-> NONE,
     attachments |-> <<>>]
\* a workspace directory: every possible file name, ABSENT when not there
FileNames == AttNames \cup {"index.html", "README.md", "LICENSE"}
ABSENT == [kind |-> "absent", bytes |-> <<>>, text |-> ""]
NoFiles == [n \in FileNames |-> ABSENT]
NoResponse == [status |-> 0, body |-> NONE, key |-> NONE]
NoPub == [repo_url |-> <<>>, commit_sha |-> <<>>, pages_url |-> <<>>]
NoWfp ==
    [timeout |-> 0, poll_interval |-> 0, now |-> 0, end |-> 0, checked |-> 0,
     probes |-> 0, sleeps |-> 0, last |-> 0, result |-> NONE]
NoNb ==
    [max_attempts |-> 0, attempt |-> 0, delay |-> 0, posts |-> <<>>,
     sleeps |-> <<>>, result |-> NONE]

\* load_secrets(): the mapping read from the secrets file at start
LoadedSecrets == [e \in Emails |-> IF e = "e1" THEN "s1" ELSE NONE]
NotAsked == [keys |-> {}, email |-> NONE, secret |-> NONE]
NoAdmin ==
    [pc |-> "idle", email |-> "", secret |-> "", seen |-> <<>>, text |-> <<>>,
     status |-> 0]

InitTasks ==
    /\ secrets_file = LoadedSecrets
    /\ secrets_map = secrets_file
    /\ admin = [a \in Admins |-> NoAdmin]
    /\ updates = <<>>
    /\ asked = [t \in Tasks |-> NotAsked]
    /\ queue = <<>>
    /\ response = [t \in Tasks |-> NoResponse]
    /\ task = [t \in Tasks |-> NoTask]
    /\ outcome = [t \in Tasks |-> NONE]
    /\ failed = [t \in Tasks |-> NONE]
    /\ began = [t \in Tasks |-> <<>>]
    /\ ended = [t \in Tasks |-> <<>>]
    /\ warned = [t \in Tasks |-> {}]
    /\ dirs = {}
    /\ ws = [t \in Tasks |-> <<>>]
    /\ files = [t \in Tasks |-> NoFiles]
    /\ commit = [t \in Tasks |-> <<>>]
    /\ remote = [t \in Tasks |-> <<>>]
    /\ pub = [t \in Tasks |-> NoPub]
    /\ pages = [t \in Tasks |-> <<>>]
    /\ payload = [t \in Tasks |-> <<>>]

Init ==
    /\ InitTasks
    /\ gh_token = TRUE
    /\ max_workers = MAX_WORKERS
    /\ wfp = [t \in Tasks |-> NoWfp]
    /\ nb = [t \in Tasks |-> NoNb]
    /\ pc = [t \in Tasks |-> "idle"]

\* ---------------------------------------------------------------- intake
\* jsonify({...}), status
Accepted == [status |-> 200, body |-> "accepted", key |-> NONE]
Rejected(error, k) == [status |-> 400, body |-> error, key |-> k]

MissingKeys(data) == {i \in 1..Len(REQUIRED) : REQUIRED[i] \notin DOMAIN data}
FirstMissing(data) ==
    REQUIRED[CHOOSE i \in MissingKeys(data) : \A j \in MissingKeys(data) : i <= j]

\* stored is None or stored != secret
SecretRejected_unknown_only(stored, secret) == stored = NONE
SecretRejected(stored, secret) == stored = NONE \/ stored # secret

\* request.get_json(force=True): what the body holds
Asked(data) ==
    [keys |-> DOMAIN data,
     email |-> IF "email" \in DOMAIN data THEN data.email ELSE NONE,
     secret |-> IF "secret" \in DOMAIN data THEN data.secret ELSE NONE]

Reject(t, resp) ==
    /\ response' = [response EXCEPT ![t] = resp]
    /\ pc' = [pc EXCEPT ![t] = "rejected"]
    /\ UNCHANGED <<secrets_map, gh_token, max_workers, queue, task, adminVars>>

\* POST /api/task with a body that is not JSON
api_task_invalid_json(t) ==
    /\ pc[t] = "idle"
    /\ Reject(t, Rejected("invalid json", NONE))
    /\ UNCHANGED asked
    /\ UNCHANGED <<logVars, diskVars, hubVars, callVars>>

\* POST /api/task with the JSON object data
api_task(t, data) ==
    /\ pc[t] = "idle"
    /\ asked' = [asked EXCEPT ![t] = Asked(data)]
    /\ IF MissingKeys(data) # {}
       THEN Reject(t, Rejected("missing", FirstMissing(data)))
       ELSE IF SecretRejected(secrets_map[data.email], data.secret)
       THEN Reject(t, Rejected("invalid secret", NONE))
       ELSE /\ queue' = Append(queue, t)
            /\ task' = [task EXCEPT ![t] = data]
            /\ response' = [response EXCEPT ![t] = Accepted]
            /\ pc' = [pc EXCEPT ![t] = "queued"]
            /\ UNCHANGED <<secrets_map, gh_token, max_workers, adminVars>>
    /\ UNCHANGED <<logVars, diskVars, hubVars, callVars>>

\* --------------------------------------------------------- admin_add_secret
\* the rest of the state, untouched by the admin endpoint
notAdmin ==
    <<gh_token, max_workers, queue, response, task, asked, pc, logVars,
      diskVars, hubVars, callVars>>

AdminReturn(a, status) ==
    admin' = [admin EXCEPT ![a].pc = "returned", ![a].status = status]

\* secrets_map[email] = secret
StoreSecret_replace(m, email, secret) ==
    [e \in Emails |-> IF e = email THEN secret ELSE NONE]
StoreSecret(m, email, secret) == [m EXCEPT ![email] = secret]

\* lines 265-270: the body is read; a missing or empty email or secret is
\* answered with 400, otherwise the mapping entry is overwritten
admin_add_secret(a, body) ==
    /\ admin[a].pc = "idle"
    /\ IF body.email = "" \/ body.secret = ""
       THEN /\ AdminReturn(a, 400)
            /\ UNCHANGED <<secrets_map, updates>>
       ELSE /\ secrets_map' = StoreSecret(secrets_map, body.email, body.secret)
            /\ updates' = Append(updates, <<body.email, body.secret>>)
            /\ admin' = [admin EXCEPT ![a].pc = "dumps",
                                      ![a].email = body.email,
                                      ![a].secret = body.secret]
    /\ UNCHANGED <<secrets_file, notAdmin>>

\* line 41: json.dumps(m, indent=2) starts to walk the shared dict
admin_dumps_begin(a) ==
    /\ admin[a].pc = "dumps"
    /\ admin' = [admin EXCEPT ![a].pc = "encoding", ![a].seen = <<secrets_map>>]
    /\ UNCHANGED <<secrets_map, secrets_file, updates, notAdmin>>

KeysOf(m) == {e \in Emails : m[e] # NONE}

\* what a walk of the dict can yield when it was m at the start and is now
\* cur: each entry as it was or as it is
Walks(m, cur) ==
    {w \in [Emails -> Secrets \cup {NONE}] : \A e \in Emails : w[e] \in {m[e], cur[e]}}

\* line 41: the walk ends with the text w, or, when a key was inserted under
\* it, with RuntimeError (dictionary changed size during iteration), which
\* is answered with 500 before anything is written
admin_dumps_end(a, w, raises) ==
    /\ admin[a].pc = "encoding"
    /\ w \in Walks(admin[a].seen[1], secrets_map)
    /\ raises => KeysOf(admin[a].seen[1]) # KeysOf(secrets_map)
    /\ IF raises
       THEN AdminReturn(a, 500)
       ELSE admin' = [admin EXCEPT ![a].pc = "write", ![a].text = <<w>>]
    /\ UNCHANGED <<secrets_map, secrets_file, updates, notAdmin>>

\* lines 41 and 272: Path.write_text replaces the file; 200 "saved"
admin_write(a) ==
    /\ admin[a].pc = "write"
    /\ secrets_file' = admin[a].text[1]
    /\ AdminReturn(a, 200)
    /\ UNCHANGED <<secrets_map, updates, notAdmin>>

\* ----------------------------------------------------------- worker pool
Waiting == {"idle", "rejected", "queued", "done"}
Running == {t \in Tasks : pc[t] \notin Waiting}

\* ThreadPoolExecutor(max_workers=MAX_WORKERS): a thread is free
PoolHasRoom_unbounded(running) == TRUE
PoolHasRoom(running) == Cardinality(running) < max_workers

\* a pool thread takes the oldest work item when fewer than max_workers run
worker_start(t) ==
    /\ queue # <<>>
    /\ t = Head(queue)
    /\ PoolHasRoom(Running)
    /\ queue' = Tail(queue)
    /\ pc' = [pc EXCEPT ![t] = "fields"]
    /\ UNCHANGED <<secrets_map, gh_token, max_workers, response, task, adminVars,
                   asked>>
    /\ UNCHANGED <<logVars, diskVars, hubVars, callVars>>

\* ------------------------------------------------------------ process_task
\* except Exception as e: print("Error in process_task:", e)
Raise_thread_lost(t, step) ==
    /\ pc' = [pc EXCEPT ![t] = "crashed"]
    /\ outcome' = [outcome EXCEPT ![t] = "error"]
    /\ failed' = [failed EXCEPT ![t] = step]
Raise(t, step) ==
    /\ pc' = [pc EXCEPT ![t] = "done"]
    /\ outcome' = [outcome EXCEPT ![t] = "error"]
    /\ failed' = [failed EXCEPT ![t] = step]

Begin(t, stage) == began' = [began EXCEPT ![t] = Append(@, stage)]
End(t, stage) == ended' = [ended EXCEPT ![t] = Append(@, stage)]

AttachmentsOf(task_json) ==
    IF "attachments" \in DOMAIN task_json THEN task_json.attachments ELSE <<>>

\* lines 159-166: the locals; int() of the round raises on a non-number
pt_fields(t) ==
    /\ pc[t] = "fields"
    /\ IF ParseInt(task[t].round)[1]
       THEN /\ pc' = [pc EXCEPT ![t] = "mkdtemp"]
            /\ UNCHANGED <<outcome, failed>>
       ELSE Raise(t, "fields")
    /\ UNCHANGED <<intakeVars, began, ended, warned, diskVars, hubVars, callVars>>

\* tempfile.mkdtemp: the name is taken only when os.mkdir of it succeeds,
\* i.e. when no directory of that name exists
Fresh_unchecked(path, existing) == TRUE
Fresh(path, existing) == path \notin existing

\* line 168: tempfile.mkdtemp creates a directory that did not exist
Suffixes == 1..NumTasks
pt_mkdtemp(t, suffix, io) ==
    /\ pc[t] = "mkdtemp"
    /\ Begin(t, "workspace")
    /\ IF io = "ok"
       THEN LET path == <<task[t].task, suffix>> IN
            /\ Fresh(path, dirs)
            /\ dirs' = dirs \cup {path}
            /\ ws' = [ws EXCEPT ![t] = path]
            /\ End(t, "workspace")
            /\ pc' = [pc EXCEPT ![t] = "attachments"]
            /\ UNCHANGED <<outcome, failed>>
       ELSE /\ Raise(t, "workspace")
            /\ UNCHANGED <<ended, dirs, ws>>
    /\ UNCHANGED <<intakeVars, warned, files, commit, hubVars, callVars>>

\* decode_data_uri_to_file on every attachment payload of the input data
Decoded == [u \in DataUris |-> decode_data_uri_to_file(u)]

\* lines 172-177: the attachments in list order; the first one that does not
\* decode raises and leaves the files written before it
RECURSIVE WriteAttachments(_, _, _)
WriteAttachments(atts, i, fs) ==
    IF i > Len(atts)
    THEN [ok |-> TRUE, files |-> fs]
    ELSE LET d == Decoded[atts[i].url] IN
         IF ~d.ok
         THEN [ok |-> FALSE, files |-> fs]
         ELSE WriteAttachments(atts, i + 1,
                [fs EXCEPT ![atts[i].name] =
                    [kind |-> "attachment", bytes |-> d.bytes, text |-> ""]])

pt_attachments(t) ==
    /\ pc[t] = "attachments"
    /\ Begin(t, "build")
    /\ LET w == WriteAttachments(AttachmentsOf(task[t]), 1, files[t]) IN
       /\ files' = [files EXCEPT ![t] = w.files]
       /\ IF w.ok
          THEN /\ pc' = [pc EXCEPT ![t] = "generate"]
               /\ UNCHANGED <<outcome, failed>>
          ELSE Raise(t, "build")
    /\ UNCHANGED <<intakeVars, ended, warned, dirs, ws, commit, hubVars, callVars>>

\* generate_minimal_app: the page names the first attachment, the readme
\* quotes the brief
generate_minimal_app(brief, attachments) ==
    LET default_asset == IF attachments # <<>> THEN attachments[1].name ELSE ""
    IN  [n \in {"index.html", "README.md"} |->
            IF n = "index.html"
            THEN [kind |-> "page", bytes |-> <<>>, text |-> default_asset]
            ELSE [kind |-> "readme", bytes |-> <<>>, text |-> brief]]

\* lines 180-185: the generated files and the license
pt_generate(t, io) ==
    /\ pc[t] = "generate"
    /\ IF io = "ok"
       THEN LET gen == generate_minimal_app(task[t].brief, AttachmentsOf(task[t]))
            IN  /\ files' = [files EXCEPT ![t] =
                        [n \in FileNames |->
                            IF n \in DOMAIN gen THEN gen[n]
                            ELSE IF n = "LICENSE"
                            THEN [kind |-> "license", bytes |-> <<>>,
                                  text |-> "owner"]
                            ELSE files[t][n]]]
                /\ End(t, "build")
                /\ pc' = [pc EXCEPT ![t] = "git"]
                /\ UNCHANGED <<outcome, failed>>
       ELSE /\ Raise(t, "build")
            /\ UNCHANGED <<ended, files>>
    /\ UNCHANGED <<intakeVars, began, warned, dirs, ws, commit, hubVars, callVars>>

\* run(): subprocess.run(..., check=True) raises when a command exits
\* non-zero
RunRaises_unchecked(r) == FALSE
RunRaises(r) == r # "ok"

\* lines 188-192: git init, config, add --all, commit; the commit exists
\* only when every command succeeded
GitStep(t, r, raises) ==
    /\ pc[t] = "git"
    /\ Begin(t, "commit")
    /\ commit' = [commit EXCEPT ![t] =
                    IF r = "ok"
                    THEN <<[sha |-> <<"sha", ws[t]>>, tree |-> files[t]]>>
                    ELSE <<>>]
    /\ IF raises
       THEN /\ Raise(t, "commit")
            /\ UNCHANGED ended
       ELSE /\ End(t, "commit")
            /\ pc' = [pc EXCEPT ![t] = "create_repo"]
            /\ UNCHANGED <<outcome, failed>>
    /\ UNCHANGED <<intakeVars, warned, dirs, ws, files, hubVars, callVars>>

pt_git(t, r) == GitStep(t, r, RunRaises(r))

\* r.raise_for_status(): 4xx and 5xx raise
RaisesForStatus(status) == status >= 400

RepoName(t) == <<task[t].task, "uuid", t>>

\* lines 195-197: github_create_repo, fatal when GH_TOKEN is not set, the
\* request raises or the status is an error; after is the step that follows
CreateRepoStep(t, r, after) ==
    /\ pc[t] = "create_repo"
    /\ Begin(t, "repository")
    /\ IF gh_token /\ r # NO_RESPONSE /\ ~RaisesForStatus(r)
       THEN /\ remote' = [remote EXCEPT ![t] =
                            <<[name |-> RepoName(t), head |-> <<>>]>>]
            /\ pub' = [pub EXCEPT ![t].repo_url = <<"html_url", RepoName(t)>>]
            /\ pc' = [pc EXCEPT ![t] = after]
            /\ UNCHANGED <<outcome, failed>>
       ELSE /\ Raise(t, "repository")
            /\ UNCHANGED <<remote, pub>>
    /\ UNCHANGED <<intakeVars, ended, warned, diskVars, pages, callVars>>

pt_create_repo_no_push(t, r) == CreateRepoStep(t, r, "pages_post")
pt_create_repo(t, r) == CreateRepoStep(t, r, "push")

\* lines 200-207: add the remote, push main, read the commit sha
pt_push(t, r) ==
    /\ pc[t] = "push"
    /\ IF r = "ok"
       THEN /\ remote' = [remote EXCEPT ![t] =
                            <<[name |-> RepoName(t), head |-> commit[t][1].sha]>>]
            /\ pub' = [pub EXCEPT ![t].commit_sha = commit[t][1].sha]
            /\ End(t, "repository")
            /\ pc' = [pc EXCEPT ![t] = "pages_post"]
            /\ UNCHANGED <<outcome, failed>>
       ELSE /\ Raise(t, "repository")
            /\ UNCHANGED <<ended, remote, pub>>
    /\ UNCHANGED <<intakeVars, began, warned, diskVars, pages, callVars>>

\* if r.status_code not in (201, 202)
PagesAccepted_created_only(status) == status = 201
PagesAccepted(status) == status \in {201, 202}

\* lines 211-215: github_enable_pages has returned a response; the hosted
\* URL is formed and wait_for_pages(pages_url, timeout=180) is called.
\* b is the list of stages begun so far.
PagesReturn(t, b) ==
    /\ pub' = [pub EXCEPT ![t].pages_url = <<"pages", RepoName(t)>>]
    /\ End(t, "hosting")
    /\ began' = [began EXCEPT ![t] = Append(b, "poll")]
    /\ wfp' = [wfp EXCEPT ![t] =
                 [NoWfp EXCEPT !.timeout = PAGES_TIMEOUT,
                               !.poll_interval = POLL_INTERVAL]]
    /\ pc' = [pc EXCEPT ![t] = "wfp_enter"]
    /\ UNCHANGED <<outcome, failed>>

\* an exception leaves github_enable_pages and process_task's try block
PagesRaise(t, b) ==
    /\ began' = [began EXCEPT ![t] = b]
    /\ Raise(t, "hosting")
    /\ UNCHANGED <<ended, pub, wfp>>

\* line 210, github_enable_pages lines 117-124: the POST
pt_pages_post(t, r) ==
    /\ pc[t] = "pages_post"
    /\ LET b == Append(began[t], "hosting") IN
       IF ~gh_token
       THEN PagesRaise(t, b) /\ UNCHANGED pages
       ELSE /\ pages' = [pages EXCEPT ![t] = Append(@, <<"POST", r>>)]
            /\ IF r = NO_RESPONSE
               THEN PagesRaise(t, b)
               ELSE IF PagesAccepted(r)
               THEN PagesReturn(t, b)
               ELSE /\ pc' = [pc EXCEPT ![t] = "pages_put"]
                    /\ began' = [began EXCEPT ![t] = b]
                    /\ UNCHANGED <<outcome, failed, ended, pub, wfp>>
    /\ UNCHANGED <<intakeVars, warned, diskVars, remote, nb, payload>>

\* github_enable_pages lines 125-127: the PUT after a rejected POST
pt_pages_put(t, r) ==
    /\ pc[t] = "pages_put"
    /\ pages' = [pages EXCEPT ![t] = Append(@, <<"PUT", r>>)]
    /\ IF r = NO_RESPONSE
       THEN PagesRaise(t, began[t])
       ELSE PagesReturn(t, began[t])
    /\ UNCHANGED <<intakeVars, warned, diskVars, remote, nb, payload>>

\* ---------------------------------------------------------- wait_for_pages
\* while time.time() < end
BeforeDeadline_early(now, end) == now + 1 < end
BeforeDeadline(now, end) == now < end

\* if r.status_code == 200
ProbeSucceeded_any2xx(status) == status >= 200 /\ status < 300
ProbeSucceeded(status) == status = 200

\* line 130: end = time.time() + timeout; the responses of the hosting
\* requests are out of scope by now
wfp_enter(t) ==
    /\ pc[t] = "wfp_enter"
    /\ wfp' = [wfp EXCEPT ![t].end = wfp[t].now + wfp[t].timeout]
    /\ pages' = [pages EXCEPT ![t] = <<>>]
    /\ pc' = [pc EXCEPT ![t] = "wfp_check"]
    /\ UNCHANGED <<intakeVars, logVars, diskVars, remote, pub, nb, payload>>

\* line 131: the loop condition; line 139 when it fails
wfp_check(t) ==
    /\ pc[t] = "wfp_check"
    /\ IF BeforeDeadline(wfp[t].now, wfp[t].end)
       THEN /\ wfp' = [wfp EXCEPT ![t].checked = wfp[t].now]
            /\ pc' = [pc EXCEPT ![t] = "wfp_probe"]
       ELSE /\ wfp' = [wfp EXCEPT ![t].result = "False"]
            /\ pc' = [pc EXCEPT ![t] = "wfp_return"]
    /\ UNCHANGED <<intakeVars, logVars, diskVars, hubVars, nb, payload>>

\* lines 132-137: one GET taking d time units; a status, or an exception
\* that is swallowed
wfp_probe(t, d, r) ==
    /\ pc[t] = "wfp_probe"
    /\ IF r # NO_RESPONSE /\ ProbeSucceeded(r)
       THEN /\ wfp' = [wfp EXCEPT ![t].now = @ + d, ![t].probes = @ + 1,
                                  ![t].last = r, ![t].result = "True"]
            /\ pc' = [pc EXCEPT ![t] = "wfp_return"]
       ELSE /\ wfp' = [wfp EXCEPT ![t].now = @ + d, ![t].probes = @ + 1,
                                  ![t].last = r]
            /\ pc' = [pc EXCEPT ![t] = "wfp_sleep"]
    /\ UNCHANGED <<intakeVars, logVars, diskVars, hubVars, nb, payload>>

\* line 138: time.sleep(poll_interval) returns after at least poll_interval
wfp_sleep(t, over) ==
    /\ pc[t] = "wfp_sleep"
    /\ wfp' = [wfp EXCEPT ![t].now = @ + wfp[t].poll_interval + over,
                          ![t].sleeps = @ + 1]
    /\ pc' = [pc EXCEPT ![t] = "wfp_check"]
    /\ UNCHANGED <<intakeVars, logVars, diskVars, hubVars, nb, payload>>

\* ----------------------------------------------------- notify_with_backoff
\* if r.status_code == 200
Delivered_any2xx(status) == status >= 200 /\ status < 300
Delivered(status) == status = 200

\* delay = min(delay*2, 60)
NextDelay_uncapped(delay) == delay * 2
NextDelay(delay) == Min(delay * 2, MAX_DELAY)

\* for attempt in range(max_attempts): the next iteration, or return False
NbLoop_one_short(n) ==
    IF n.attempt < n.max_attempts - 1
    THEN <<n, "nb_post">>
    ELSE <<[n EXCEPT !.result = "False"], "nb_return">>
NbLoop(n) ==
    IF n.attempt < n.max_attempts
    THEN <<n, "nb_post">>
    ELSE <<[n EXCEPT !.result = "False"], "nb_return">>

\* lines 142-144
nb_enter(t) ==
    /\ pc[t] = "nb_enter"
    /\ LET nx == NbLoop([nb[t] EXCEPT !.delay = 1, !.attempt = 0]) IN
       /\ nb' = [nb EXCEPT ![t] = nx[1]]
       /\ pc' = [pc EXCEPT ![t] = nx[2]]
    /\ UNCHANGED <<intakeVars, logVars, diskVars, hubVars, wfp, payload>>

\* lines 145-151: one POST; a status, or an exception that is printed
nb_post(t, r) ==
    /\ pc[t] = "nb_post"
    /\ IF r # NO_RESPONSE /\ Delivered(r)
       THEN /\ nb' = [nb EXCEPT ![t].posts = Append(@, r),
                                ![t].result = "True"]
            /\ pc' = [pc EXCEPT ![t] = "nb_return"]
       ELSE /\ nb' = [nb EXCEPT ![t].posts = Append(@, r)]
            /\ pc' = [pc EXCEPT ![t] = "nb_sleep"]
    /\ UNCHANGED <<intakeVars, logVars, diskVars, hubVars, wfp, payload>>

\* lines 152-153 and the loop header
nb_sleep(t) ==
    /\ pc[t] = "nb_sleep"
    /\ LET nx == NbLoop([nb[t] EXCEPT !.sleeps = Append(@, nb[t].delay),
                                      !.delay = NextDelay(nb[t].delay),
                                      !.attempt = @ + 1]) IN
       /\ nb' = [nb EXCEPT ![t] = nx[1]]
       /\ pc' = [pc EXCEPT ![t] = nx[2]]
    /\ UNCHANGED <<intakeVars, logVars, diskVars, hubVars, wfp, payload>>

\* ------------------------------------------------- process_task, continued
\* if evaluation_url:
Truthy(url) == url # ""

\* line 234; the locals of process_task go out of scope
Finish(t) ==
    /\ pc' = [pc EXCEPT ![t] = "done"]
    /\ outcome' = [outcome EXCEPT ![t] = "finished"]
    /\ UNCHANGED failed

\* if not ok: print("Warning: ...") and if not success: print("Failed ...")
Warn(t, result, what) ==
    warned' = [warned EXCEPT ![t] = IF result = "False" THEN @ \cup {what} ELSE @]

\* lines 219-227: the payload, from the locals of this call of process_task
PayloadOf_first_task(t) ==
    [email |-> task[1].email, task |-> task[1].task,
     round |-> ParseInt(task[1].round)[2], nonce |-> task[1].nonce,
     repo_url |-> pub[t].repo_url, commit_sha |-> pub[t].commit_sha,
     pages_url |-> pub[t].pages_url]
PayloadOf(t) ==
    [email |-> task[t].email, task |-> task[t].task,
     round |-> ParseInt(task[t].round)[2], nonce |-> task[t].nonce,
     repo_url |-> pub[t].repo_url, commit_sha |-> pub[t].commit_sha,
     pages_url |-> pub[t].pages_url]

\* lines 215-230 (and 234 without a callback URL): the poller has returned,
\* the payload is built, the notifier is called with its default budget
\* when notify holds
PayloadStep(t, notify) ==
    /\ pc[t] = "wfp_return"
    /\ End(t, "poll")
    /\ Warn(t, wfp[t].result, "poll")
    /\ wfp' = [wfp EXCEPT ![t] = NoWfp]
    /\ payload' = [payload EXCEPT ![t] = <<PayloadOf(t)>>]
    /\ IF notify
       THEN /\ Begin(t, "notify")
            /\ nb' = [nb EXCEPT ![t] =
                        [NoNb EXCEPT !.max_attempts = MAX_ATTEMPTS]]
            /\ pc' = [pc EXCEPT ![t] = "nb_enter"]
            /\ UNCHANGED <<outcome, failed>>
       ELSE /\ Finish(t)
            /\ UNCHANGED <<began, nb>>
    /\ UNCHANGED <<intakeVars, diskVars, hubVars>>

pt_payload_timeout_fatal(t) ==
    PayloadStep(t, Truthy(task[t].evaluation_url) /\ wfp[t].result = "True")
pt_payload(t) == PayloadStep(t, Truthy(task[t].evaluation_url))

\* lines 230-234: the notifier has returned
pt_finish(t) ==
    /\ pc[t] = "nb_return"
    /\ End(t, "notify")
    /\ Warn(t, nb[t].result, "notify")
    /\ nb' = [nb EXCEPT ![t] = NoNb]
    /\ Finish(t)
    /\ UNCHANGED <<intakeVars, began, diskVars, hubVars, wfp, payload>>

\* -------------------------------------------------------- specifications
\* what the environment may answer: every outcome, or a short list that
\* still takes every branch of the pipeline
FullEnv ==
    [suffix |-> Suffixes, io |-> {"ok", "oserror"}, git |-> {"ok", "fail"},
     repo |-> {201, 422, NO_RESPONSE}, pages |-> PagesStatuses,
     probe |-> {200, 404}, notify |-> LeanNotifyStatuses]
LeanEnv ==
    [suffix |-> Suffixes, io |-> {"ok"}, git |-> {"ok", "fail"},
     repo |-> {201}, pages |-> {201, 404},
     probe |-> {200, 404}, notify |-> LeanNotifyStatuses]

\* one step of the worker thread that runs task t
ProcessStep(t, env) ==
    \/ worker_start(t)
    \/ pt_fields(t)
    \/ \E suffix \in env.suffix, io \in env.io : pt_mkdtemp(t, suffix, io)
    \/ pt_attachments(t)
    \/ \E io \in env.io : pt_generate(t, io)
    \/ \E r \in env.git : pt_git(t, r)
    \/ \E r \in env.repo : pt_create_repo(t, r)
    \/ \E r \in env.git : pt_push(t, r)
    \/ \E r \in env.pages : pt_pages_post(t, r)
    \/ \E r \in env.pages : pt_pages_put(t, r)
    \/ wfp_enter(t)
    \/ wfp_check(t)
    \/ \E r \in env.probe : wfp_probe(t, SlowProbe, r)
    \/ wfp_sleep(t, 0)
    \/ pt_payload(t)
    \/ nb_enter(t)
    \/ \E r \in env.notify : nb_post(t, r)
    \/ nb_sleep(t)
    \/ pt_finish(t)

\* Spec: NumTasks submissions to a pool of MAX_WORKERS threads
\* the t-th submission carries its own nonce, all share one task id
Nonces == <<"n1", "n2", "n3", "n4">>
LeanPayloads(t) ==
    [email : {"e1"}, secret : Secrets, task : {"t1"}, round : LeanRounds,
     nonce : {Nonces[t]}, brief : {"b"}, evaluation_url : CallbackUrls,
     attachments : {<<>>, <<[name |-> "a.png", url |-> URI_SHORT]>>}]

Next ==
    \E t \in Tasks :
        \/ \E data \in LeanPayloads(t) : api_task(t, data)
        \/ ProcessStep(t, LeanEnv)

Spec == Init /\ [][Next]_vars

\* FairSpec: every pool thread keeps running and every external call returns
FairSpec ==
    Spec /\ \A t \in Tasks : WF_vars(ProcessStep(t, LeanEnv))

\* TaskSpec: one submission with every descriptor, run through process_task
TaskInit ==
    /\ InitTasks
    /\ gh_token \in BOOLEAN
    /\ max_workers = MAX_WORKERS
    /\ wfp = [t \in Tasks |-> NoWfp]
    /\ nb = [t \in Tasks |-> NoNb]
    /\ pc = [t \in Tasks |-> "idle"]

TaskNext ==
    \/ api_task_invalid_json(1)
    \/ \E data \in Payloads(Rounds, AttachmentLists) : api_task(1, data)
    \/ \E data \in PartialPayloads : api_task(1, data)
    \/ ProcessStep(1, FullEnv)

TaskSpec == TaskInit /\ [][TaskNext]_vars

\* FairTaskSpec: TaskSpec with a pool thread that keeps running
FairTaskSpec == TaskSpec /\ WF_vars(ProcessStep(1, FullEnv))

\* PollSpec: wait_for_pages called on its own with any timeout and interval
PollInit ==
    /\ InitTasks
    /\ gh_token = TRUE
    /\ max_workers = MAX_WORKERS
    /\ pc = [t \in Tasks |-> IF t = 1 THEN "wfp_enter" ELSE "idle"]
    /\ nb = [t \in Tasks |-> NoNb]
    /\ \E timeout \in 0..MaxTimeout, poll_interval \in 1..MaxInterval :
          wfp = [t \in Tasks |->
                   IF t = 1
                   THEN [NoWfp EXCEPT !.timeout = timeout,
                                      !.poll_interval = poll_interval]
                   ELSE NoWfp]

PollNext ==
    \/ wfp_enter(1)
    \/ wfp_check(1)
    \/ \E d \in 0..MaxProbeDur, r \in ProbeStatuses : wfp_probe(1, d, r)
    \/ \E over \in 0..MaxOversleep : wfp_sleep(1, over)

PollSpec == PollInit /\ [][PollNext]_vars

\* NotifySpec: notify_with_backoff called on its own with any budget
NotifyInit ==
    /\ InitTasks
    /\ gh_token = TRUE
    /\ max_workers = MAX_WORKERS
    /\ pc = [t \in Tasks |-> IF t = 1 THEN "nb_enter" ELSE "idle"]
    /\ wfp = [t \in Tasks |-> NoWfp]
    /\ \E max_attempts \in 0..MaxBudget :
          nb = [t \in Tasks |->
                  IF t = 1 THEN [NoNb EXCEPT !.max_attempts = max_attempts]
                  ELSE NoNb]

NotifyNext ==
    \/ nb_enter(1)
    \/ \E r \in NotifyStatuses : nb_post(1, r)
    \/ nb_sleep(1)

NotifySpec == NotifyInit /\ [][NotifyNext]_vars

\* WideSpec: a pool with a thread for every submission, so that the tasks
\* run side by side
WideEnv ==
    [suffix |-> Suffixes, io |-> {"ok"}, git |-> {"ok"}, repo |-> {201},
     pages |-> {404}, probe |-> {404}, notify |-> {500}]
WidePayloads(t) ==
    [email : {"e1"}, secret : {"s1"}, task : {"t1"}, round : LeanRounds,
     nonce : {Nonces[t]}, brief : {"b"}, evaluation_url : {"cb"},
     attachments : {<<[name |-> "a.png", url |-> URI_PADDED]>>}]

WideInit ==
    /\ InitTasks
    /\ gh_token = TRUE
    /\ max_workers = NumTasks
    /\ wfp = [t \in Tasks |-> NoWfp]
    /\ nb = [t \in Tasks |-> NoNb]
    /\ pc = [t \in Tasks |-> "idle"]

WideNext ==
    \E t \in Tasks :
        \/ \E data \in WidePayloads(t) : api_task(t, data)
        \/ ProcessStep(t, WideEnv)

WideSpec == WideInit /\ [][WideNext]_vars

\* AdminSpec: NumAdmins calls of /admin/add_secret handled by the threads of
\* the server in any interleaving, and intakes between their steps
AdminBodies == [email : Emails \cup {""}, secret : Secrets \cup {""}]
IntakePayloads ==
    [email : Emails, secret : Secrets, task : {"t1"}, round : LeanRounds,
     nonce : {"n1"}, brief : {"b"}, evaluation_url : {"cb"},
     attachments : {<<>>}]
SecretMaps == [Emails -> Secrets \cup {NONE}]

InFlight == {a \in Admins : admin[a].pc \notin {"idle", "returned"}}

AdminStep(a) ==
    \/ admin_dumps_begin(a)
    \/ \E w \in SecretMaps, raises \in BOOLEAN : admin_dumps_end(a, w, raises)
    \/ admin_write(a)

AdminNext ==
    \/ \E a \in Admins, body \in AdminBodies : admin_add_secret(a, body)
    \/ \E a \in Admins : AdminStep(a)
    \/ \E t \in Tasks, data \in IntakePayloads : api_task(t, data)

AdminSpec == Init /\ [][AdminNext]_vars

\* SeqAdminSpec: the same calls one after the other, each one starting when
\* no other is being handled
SeqAdminNext ==
    \/ \E a \in Admins, body \in AdminBodies :
          InFlight = {} /\ admin_add_secret(a, body)
    \/ \E a \in Admins : AdminStep(a)
    \/ \E t \in Tasks, data \in IntakePayloads : api_task(t, data)

SeqAdminSpec == Init /\ [][SeqAdminNext]_vars

\* ------------------------------------------------------------ properties
IsPrefix(a, b) == Len(a) <= Len(b) /\ \A i \in 1..Len(a) : a[i] = b[i]
Last(q) == q[Len(q)]
Contains(q, x) == \E i \in 1..Len(q) : q[i] = x

\* C1: the stages of a task begin in the order workspace, build, commit,
\* repository (creation and push), hosting, poll, notify; a stage begins only
\* when every stage before it has completed, and a task that reaches the
\* notifier has completed all six stages before it.
C1_StagesInOrder ==
    \A t \in Tasks :
        /\ IsPrefix(began[t], ORDER)
        /\ IsPrefix(ended[t], began[t])
        /\ Len(began[t]) - Len(ended[t]) <= 1
        /\ pc[t] \in {"nb_enter", "nb_post", "nb_sleep", "nb_return"}
              => began[t] = ORDER /\ ended[t] = SubSeq(ORDER, 1, 6)

C1_Witness ==
    pc[1] = "nb_return" /\ Len(nb[1].posts) > 0 /\ began[1] = ORDER

\* C2: when the workspace, build, commit or repository stage of a task fails,
\* the task ends there with an error log line: no later stage begins, its
\* product is missing for good, and no notification POST is issued.
FatalSteps == {"workspace", "build", "commit", "repository"}
C2_FatalFailureAborts ==
    \A t \in Tasks :
        /\ failed[t] \in FatalSteps
              => /\ pc[t] = "done" /\ outcome[t] = "error"
                 /\ Last(began[t]) = failed[t]
                 /\ ~Contains(ended[t], failed[t])
                 /\ nb[t].posts = <<>> /\ wfp[t].probes = 0 /\ pages[t] = <<>>
        /\ Contains(began[t], "build") => ws[t] # <<>>
        /\ Contains(began[t], "commit") => files[t]["LICENSE"] # ABSENT
        /\ Contains(began[t], "repository") => commit[t] # <<>>
        /\ Contains(began[t], "hosting")
              => remote[t] # <<>> /\ remote[t][1].head = commit[t][1].sha

C2_Witness ==
    /\ failed[1] = "repository" /\ pc[1] = "done" /\ commit[1] # <<>>
    /\ remote[1] = <<>>

\* a well-formed attachment payload: "data:", a media type, ";base64," and a
\* canonical base64 body (alphabet characters in quads, padded at the end)
WellFormedBody(b) ==
    /\ Len(b) % 4 = 0
    /\ \A i \in 1..Len(b) :
          \/ IsB64Char(b[i])
          \/ b[i] = "=" /\ i > Len(b) - 2 /\ \A j \in i..Len(b) : b[j] = "="
WellFormedUri(u) == DataUriMatch(u)[1] /\ WellFormedBody(DataUriMatch(u)[2])
Malformed == {u \in DataUris : ~WellFormedUri(u)}
HasMalformed(t) ==
    \E i \in 1..Len(AttachmentsOf(task[t])) :
        AttachmentsOf(task[t])[i].url \in Malformed

\* C3: a task with a malformed attachment encoding, at any position of the
\* list, never gets a commit.
C3_MalformedNeverCommitted ==
    \A t \in Tasks : HasMalformed(t) => commit[t] = <<>>

\* C4: a failed hosting-enable step (both verbs rejected, or a request that
\* raises) never ends the task with an error.
HostingFailed(t) ==
    /\ pages[t] # <<>>
    /\ \/ Last(pages[t])[2] = NO_RESPONSE
       \/ Len(pages[t]) = 2 /\ ~PagesAccepted(pages[t][2][2])
C4_HostingFailureNonFatal ==
    \A t \in Tasks : HostingFailed(t) => outcome[t] # "error"

InNotifier(t) == pc[t] \in {"nb_enter", "nb_post", "nb_sleep", "nb_return"}
RECURSIVE Pow2(_)
Pow2(n) == IF n = 0 THEN 1 ELSE 2 * Pow2(n - 1)
AllFailed(posts) == \A i \in 1..Len(posts) : posts[i] # 200
C6_BackoffSequence ==
    \A t \in Tasks :
        LET n == nb[t] IN
        /\ AllFailed(n.posts) =>
              \A i \in 1..Len(n.sleeps) : n.sleeps[i] = Min(Pow2(i - 1), 60)
        /\ n.result = "False" =>
              /\ AllFailed(n.posts)
              /\ Len(n.posts) = n.max_attempts
              /\ Len(n.sleeps) = n.max_attempts
              /\ n.max_attempts = 8 =>
                    n.sleeps = <<1, 2, 4, 8, 16, 32, 60, 60>>

C6_Witness ==
    /\ pc[1] = "nb_return" /\ nb[1].result = "False"
    /\ nb[1].max_attempts = 8 /\ Len(nb[1].posts) = 8

\* C7: when the first status 200 comes on attempt k <= max_attempts, the
\* notifier has issued exactly k POSTs, returns True and sleeps and posts no
\* more; every other status, 2xx included, and every exception uses up one
\* attempt.
C7_StopsAtFirst200 ==
    \A t \in Tasks :
        LET n == nb[t] IN
        /\ Len(n.posts) <= n.max_attempts
        /\ \A i \in 1..Len(n.posts) :
              n.posts[i] = 200 =>
                 /\ i = Len(n.posts)
                 /\ n.result = "True"
                 /\ pc[t] = "nb_return"
                 /\ Len(n.sleeps) = i - 1
        /\ n.result = "True" => n.posts # <<>> /\ Last(n.posts) = 200
        /\ n.attempt = Len(n.sleeps)
        /\ Len(n.sleeps) = Cardinality({i \in 1..Len(n.posts) : n.posts[i] # 200})
              \/ pc[t] = "nb_sleep"

C7_Witness ==
    /\ nb[1].result = "True" /\ Len(nb[1].posts) = 3
    /\ nb[1].posts[1] = 201 /\ nb[1].posts[2] = NO_RESPONSE

\* C8: when the k-th probe is the first to return status 200, the poller
\* returns True right after it, having made exactly k probes and k-1 sleeps.
C8_ReturnsAtFirstSuccess ==
    \A t \in Tasks :
        LET w == wfp[t] IN
        /\ w.probes > 0 /\ w.last = 200 =>
              /\ w.result = "True"
              /\ pc[t] = "wfp_return"
              /\ w.sleeps = w.probes - 1
              /\ w.checked < w.end
        /\ w.result = "True" => w.probes > 0 /\ w.last = 200

C8_Witness ==
    wfp[1].result = "True" /\ wfp[1].probes = 3 /\ wfp[1].sleeps = 2

\* C9 as stated: the poller returns False exactly at the deadline.
C9_ExpiresExactlyAtDeadline ==
    \A t \in Tasks : wfp[t].result = "False" => wfp[t].now = wfp[t].end

\* C9 amended: the poller returns False at the first loop test whose clock
\* reading is at or past the deadline, never before the deadline; the last
\* probe started before the deadline, so the return is late by less than one
\* probe plus one sleep.
C9_ExpiresNotBeforeDeadline ==
    \A t \in Tasks :
        LET w == wfp[t] IN
        w.result = "False" =>
            /\ w.now >= w.end
            /\ w.end = w.timeout
            /\ w.sleeps = w.probes
            /\ w.probes > 0 => w.checked < w.end

C9_Witness ==
    wfp[1].result = "False" /\ wfp[1].now > wfp[1].end /\ wfp[1].probes >= 2

\* C10: every accepted task, also when more tasks are submitted than the
\* pool has threads, eventually ends with its "finished" or "error" line:
\* at every moment a later moment comes at which every task accepted so far
\* has ended.
AllSettled ==
    \A t \in Tasks :
        \/ pc[t] \in {"idle", "rejected"}
        \/ pc[t] = "done" /\ outcome[t] \in {"finished", "error"}
C10_EveryTaskEnds == []<>AllSettled

C10_Witness ==
    /\ NumTasks > MAX_WORKERS
    /\ \A t \in Tasks : pc[t] = "done"
    /\ \E t \in Tasks : outcome[t] = "error"
    /\ \E t \in Tasks : outcome[t] = "finished"

\* C11: at most MAX_WORKERS tasks execute pipeline stages at any moment;
\* an accepted submission is in the queue, running or ended, never rejected
\* or dropped; a submission accepted while the pool is full waits in the
\* queue, and its acknowledgment is there before any of its stages began.
C11_PoolBounded ==
    /\ max_workers = MAX_WORKERS
    /\ Cardinality(Running) <= MAX_WORKERS
    /\ \A t \in Tasks :
          /\ pc[t] = "queued" <=> Contains(queue, t)
          /\ response[t] = Accepted <=> pc[t] \notin {"idle", "rejected"}
          /\ pc[t] = "queued" => began[t] = <<>> /\ outcome[t] = NONE
          /\ began[t] # <<>> => response[t] = Accepted
    /\ \A i, j \in 1..Len(queue) : i # j => queue[i] # queue[j]

C11_Witness ==
    /\ Cardinality(Running) = max_workers
    /\ \E t \in Tasks : began[t] # <<>> /\ pc[t] \notin Waiting
    /\ \E t \in Tasks :
          pc[t] = "queued" /\ response[t] = Accepted /\ began[t] = <<>>

\* C12: the workspaces of different tasks are different directories, also
\* for tasks with one task id whose threads run side by side; every file of
\* a task is written under its own workspace.
C12_WorkspacesDistinct ==
    /\ \A t, u \in Tasks :
          t # u /\ ws[t] # <<>> /\ ws[u] # <<>> => ws[t] # ws[u]
    /\ \A t \in Tasks :
          /\ ws[t] # <<>> => ws[t] \in dirs
          /\ files[t] # NoFiles => ws[t] # <<>>
    /\ Cardinality(dirs) = Cardinality({t \in Tasks : ws[t] # <<>>})

C12_Witness ==
    /\ \E t, u \in Tasks :
          /\ t # u /\ task[t].task = task[u].task
          /\ pc[t] = "generate" /\ pc[u] = "generate"
          /\ files[t]["a.png"] # ABSENT /\ files[u]["a.png"] # ABSENT

\* C13: an intake enqueues the task and answers "accepted" exactly when its
\* body holds all required fields and its secret equals the one stored for
\* its email at that moment; every other intake (missing field, unknown
\* email, wrong secret, unreadable body) answers with a 400 error, enqueues
\* nothing and hands no task over; no intake changes the secret mapping.
BodyMatches(a) ==
    /\ \A i \in 1..Len(REQUIRED) : REQUIRED[i] \in a.keys
    /\ secrets_map[a.email] # NONE /\ secrets_map[a.email] = a.secret
IntakeErrors == {"invalid json", "missing", "invalid secret"}
C13_IntakeStep(t) ==
    pc[t] = "idle" /\ pc'[t] # "idle" =>
        /\ secrets_map' = secrets_map
        /\ (response'[t] = Accepted) <=> BodyMatches(asked'[t])
        /\ response'[t] = Accepted =>
              /\ Asked(task'[t]) = asked'[t]
              /\ pc'[t] = "queued"
              /\ queue' = Append(queue, t)
        /\ response'[t] # Accepted =>
              /\ response'[t].status = 400
              /\ response'[t].body \in IntakeErrors
              /\ pc'[t] = "rejected"
              /\ queue' = queue /\ task' = task
C13_IntakeIff == [][\A t \in Tasks : C13_IntakeStep(t)]_vars

C13_Witness ==
    /\ pc[1] = "queued" /\ response[1] = Accepted /\ queue = <<1>>
    /\ asked[1].email = "e1" /\ asked[1].secret = secrets_map["e1"]
    /\ task[1].email = "e1" /\ task[1].attachments # <<>>

\* C14: with admin calls handled one after the other, the mapping holds for
\* every email the secret of the latest update for it (or the loaded one when
\* there was none), so no update for another email is lost; an intake is
\* accepted exactly with that secret; and whenever no call is being handled
\* the secrets file equals the mapping.
LatestSecret(email) ==
    LET idx == {i \in 1..Len(updates) : updates[i][1] = email} IN
    IF idx = {}
    THEN LoadedSecrets[email]
    ELSE updates[CHOOSE i \in idx : \A j \in idx : j <= i][2]
C14_Stored ==
    /\ \A e \in Emails : secrets_map[e] = LatestSecret(e)
    /\ InFlight = {} => secrets_file = secrets_map
    /\ \A a \in Admins :
          admin[a].pc = "returned" => admin[a].status \in {200, 400}
C14_Intake(t) ==
    \A data \in IntakePayloads :
        api_task(t, data) =>
            ((response'[t] = Accepted)
                <=> (data.secret = LatestSecret(data.email)))
C14_LatestSecretWins == []C14_Stored /\ [][\A t \in Tasks : C14_Intake(t)]_vars

C14_Witness ==
    /\ InFlight = {}
    /\ updates = <<<<"e1", "s2">>, <<"e2", "s1">>>>
    /\ secrets_file["e1"] = "s2" /\ secrets_file["e2"] = "s1"
    /\ \E t \in Tasks :
          response[t] = Accepted /\ task[t].email = "e1" /\ task[t].secret = "s2"
    /\ \E t \in Tasks : response[t].body = "invalid secret"

\* C15: after the build stage of a task with N well-formed attachments, for
\* any declared names, the workspace holds exactly N attachment files, the
\* generated page and readme and the license, and nothing else.
AllWellFormed(t) ==
    \A i \in 1..Len(AttachmentsOf(task[t])) :
        WellFormedUri(AttachmentsOf(task[t])[i].url)
AttachmentFiles(t) == {n \in FileNames : files[t][n].kind = "attachment"}
Present(t) == {n \in FileNames : files[t][n] # ABSENT}
C15_ExactlyNAttachmentFiles ==
    \A t \in Tasks :
        Contains(ended[t], "build") /\ AllWellFormed(t) =>
            /\ Cardinality(AttachmentFiles(t)) = Len(AttachmentsOf(task[t]))
            /\ files[t]["index.html"].kind = "page"
            /\ files[t]["README.md"].kind = "readme"
            /\ files[t]["LICENSE"].kind = "license"
            /\ Cardinality(Present(t)) = Len(AttachmentsOf(task[t])) + 3

\* C16: while the notifier of a task runs and after it has run, the task's
\* repository URL, commit identifier and hosted URL are set, they are those of
\* its own repository and commit, and the payload carries exactly them with
\* the email, task id, round and nonce of this task's own descriptor, not
\* those of a task running beside it.
NotifierRan(t) == InNotifier(t) \/ Contains(ended[t], "notify")
C16_PublishResultBeforeNotify ==
    \A t \in Tasks :
        NotifierRan(t) =>
            /\ pub[t].repo_url # <<>> /\ pub[t].commit_sha # <<>>
            /\ pub[t].pages_url # <<>>
            /\ remote[t] # <<>> /\ commit[t] # <<>>
            /\ pub[t].repo_url = <<"html_url", remote[t][1].name>>
            /\ pub[t].pages_url = <<"pages", remote[t][1].name>>
            /\ pub[t].commit_sha = commit[t][1].sha
            /\ pub[t].commit_sha = remote[t][1].head
            /\ payload[t] =
                  <<[email |-> task[t].email, task |-> task[t].task, round |-> 1,
                     nonce |-> task[t].nonce, repo_url |-> pub[t].repo_url,
                     commit_sha |-> pub[t].commit_sha,
                     pages_url |-> pub[t].pages_url]>>
            /\ \A u \in Tasks \ {t} :
                  /\ payload[t][1].nonce # task[u].nonce
                  /\ payload[t][1].repo_url # pub[u].repo_url
                  /\ payload[t][1].pages_url # pub[u].pages_url

C16_Witness ==
    /\ \A t \in Tasks : pc[t] = "nb_sleep" /\ nb[t].posts # <<>>
    /\ NumTasks > 1

\* C17: the hosting-enable step sends one POST; it sends one PUT after it
\* exactly when the POST was answered with a status other than 201 and 202;
\* it never sends a third request, and none after an accepted POST or after a
\* POST that raised.
C17_AlternateVerbAtMostOnce ==
    \A t \in Tasks :
        LET p == pages[t] IN
        /\ Len(p) <= 2
        /\ Len(p) >= 1 => p[1][1] = "POST"
        /\ Len(p) = 2 =>
              /\ p[2][1] = "PUT"
              /\ p[1][2] \notin {201, 202, NO_RESPONSE}
              /\ pc[t] \in {"wfp_enter", "done"}
        /\ pc[t] = "pages_put" <=>
              Len(p) = 1 /\ p[1][2] \notin {201, 202, NO_RESPONSE}
        /\ Len(p) = 1 /\ p[1][2] \in {201, 202} => pc[t] = "wfp_enter"

C17_Witness ==
    /\ pages[1] = <<<<"POST", 404>>, <<"PUT", 202>>>>
    /\ pc[1] = "wfp_enter"

\* C18 as stated: the notifier sleeps only between two attempts, so when it
\* returns it has slept once less than it has posted.
C18_NoSleepAfterLastAttempt ==
    \A t \in Tasks :
        pc[t] = "nb_return" /\ nb[t].posts # <<>> =>
            Len(nb[t].sleeps) = Len(nb[t].posts) - 1

\* C18 amended: a sleep follows every failed attempt, the last one included:
\* a notifier that reports failure has posted max_attempts times and slept
\* max_attempts times, the last sleep coming after the last POST; one that
\* reports success has not slept after its last POST; no POST follows the
\* last sleep of an exhausted budget.
C18_SleepAfterEveryFailure ==
    \A t \in Tasks :
        LET n == nb[t] IN
        /\ n.result = "False" =>
              /\ pc[t] = "nb_return"
              /\ Len(n.posts) = n.max_attempts
              /\ Len(n.sleeps) = Len(n.posts)
        /\ n.result = "True" => Len(n.sleeps) = Len(n.posts) - 1
        /\ pc[t] = "nb_post" =>
              Len(n.sleeps) = Len(n.posts) /\ Len(n.posts) < n.max_attempts
        /\ pc[t] = "nb_sleep" =>
              Len(n.sleeps) = Len(n.posts) - 1 /\ Last(n.posts) # 200

C18_Witness ==
    /\ pc[1] = "nb_return" /\ nb[1].result = "False"
    /\ nb[1].max_attempts = 3 /\ nb[1].sleeps = <<1, 2, 4>>
    /\ Len(nb[1].posts) = 3

\* C19: for every accepted task whose workspace, build, commit and
\* repository stages (creation and push) have succeeded, a notification POST
\* is eventually issued, whatever callback URL the intake accepted.
Posted(t) == nb[t].posts # <<>> \/ Contains(ended[t], "notify")
C19_EventuallyNotified ==
    \A t \in Tasks : Contains(ended[t], "repository") ~> Posted(t)

\* C20: with admin calls handled side by side in any interleaving of their
\* steps, whenever no call is in progress the secrets file equals the
\* in-memory mapping.
C20_FileEqualsMapWhenIdle ==
    InFlight = {} => secrets_file = secrets_map

====
